---- MODULE Spec2Model ----
(***************************************************************************)
(* Model of ak500-digital (src/src/main.rs): the sampling -> display state *)
(* -> 7-byte HID report pipeline and the tick loop of main.                *)
(*                                                                         *)
(* f32 values are modelled exactly: a finite f32 is the pair <<n, d>> of   *)
(* the reduced fraction n/d (d a power of two), NaN is <<0, 0>>.  Every    *)
(* f32 operation is the exact rational operation followed by rounding to   *)
(* the nearest 24-bit significand, ties to even (IEEE-754 binary32).       *)
(* Magnitudes stay in the normal range and below 2^24, so subnormals,      *)
(* infinities and exponent overflow are outside the model.                 *)
(***************************************************************************)
EXTENDS Integers, Sequences, FiniteSets, TLC

\* ------------------------------------------------------------------------
\* Bounds of the model (not program constants)
\* ------------------------------------------------------------------------
MaxComponents == 1

MaxCpus == 1

\* ------------------------------------------------------------------------
\* Exact rational helpers
\* ------------------------------------------------------------------------
Abs(x) == IF x < 0 THEN -x ELSE x

Sgn(x) == IF x < 0 THEN -1 ELSE IF x > 0 THEN 1 ELSE 0

RECURSIVE Gcd(_, _)
Gcd(a, b) == IF b = 0 THEN a ELSE Gcd(b, a % b)

\* reduced fraction n/d, d > 0
Norm(n, d) ==
    LET g == Gcd(Abs(n), d)
    IN  IF n = 0 THEN <<0, 1>> ELSE <<n \div g, d \div g>>

NaN == <<0, 0>>

IsNaN(x) == x[2] = 0

\* the f32 holding the integer k exactly (|k| < 2^24)
Lit(k) == <<k, 1>>

\* three-way comparison of two finite values: -1, 0, 1.  Integer parts
\* first, then the fractional parts over the common denominator.
Cmp(a, b) ==
    LET qa == a[1] \div a[2]
        qb == b[1] \div b[2]
        ra == a[1] % a[2]
        rb == b[1] % b[2]
        g  == Gcd(a[2], b[2])
        xa == ra * (b[2] \div g)
        xb == rb * (a[2] \div g)
    IN  IF qa < qb THEN -1
        ELSE IF qa > qb THEN 1
        ELSE IF xa < xb THEN -1
        ELSE IF xa > xb THEN 1
        ELSE 0

\* ------------------------------------------------------------------------
\* IEEE-754 binary32 rounding (round to nearest, ties to even)
\* ------------------------------------------------------------------------
\* <<n', d', s>> with 2^23 <= n'/d' < 2^24 and n'/d' = (n/d) * 2^s
RECURSIVE Scale(_, _, _)
Scale(n, d, s) ==
    LET q == n \div d
    IN  IF q < 2^23
        THEN IF d % 2 = 0 THEN Scale(n, d \div 2, s + 1)
                          ELSE Scale(2 * n, d, s + 1)
        ELSE IF q >= 2^24
        THEN IF n % 2 = 0 THEN Scale(n \div 2, d, s - 1)
                          ELSE Scale(n, 2 * d, s - 1)
        ELSE <<n, d, s>>

RoundHalfEven(n, d) ==
    LET q == n \div d
        r == n % d
    IN  IF 2 * r < d THEN q
        ELSE IF 2 * r > d THEN q + 1
        ELSE IF q % 2 = 0 THEN q ELSE q + 1

\* the reduced fraction m * 2^(-s)
RECURSIVE Unscale(_, _)
Unscale(m, s) ==
    IF s <= 0 THEN <<m * 2^(-s), 1>>
    ELSE IF m % 2 = 0 THEN Unscale(m \div 2, s - 1)
    ELSE <<m, 2^s>>

\* the f32 nearest to the rational n/d (d > 0)
F32Round(n, d) ==
    IF n = 0 THEN <<0, 1>>
    ELSE LET sc == Scale(Abs(n), d, 0)
             m  == RoundHalfEven(sc[1], sc[2])
             r  == Unscale(m, sc[3])
         IN  <<Sgn(n) * r[1], r[2]>>

\* ------------------------------------------------------------------------
\* f32 arithmetic: exact result, then rounded
\* ------------------------------------------------------------------------
Fadd(a, b) ==
    IF IsNaN(a) \/ IsNaN(b) THEN NaN
    ELSE LET g == Gcd(a[2], b[2])
             l == (a[2] \div g) * b[2]
             e == Norm(a[1] * (l \div a[2]) + b[1] * (l \div b[2]), l)
         IN  F32Round(e[1], e[2])

Fsub(a, b) == Fadd(a, <<-b[1], b[2]>>)

Fmul(a, b) ==
    IF IsNaN(a) \/ IsNaN(b) THEN NaN
    ELSE LET g1 == Gcd(Abs(a[1]), b[2])
             g2 == Gcd(Abs(b[1]), a[2])
         IN  IF a[1] = 0 \/ b[1] = 0 THEN <<0, 1>>
             ELSE F32Round((a[1] \div g1) * (b[1] \div g2),
                           (a[2] \div g2) * (b[2] \div g1))

\* 0.0 / 0.0 is NaN; a nonzero value is never divided by zero here
Fdiv(a, b) ==
    IF IsNaN(a) \/ IsNaN(b) THEN NaN
    ELSE IF b[1] = 0 THEN NaN
    ELSE Fmul(a, <<Sgn(b[1]) * b[2], Abs(b[1])>>)

\* ------------------------------------------------------------------------
\* Rust numeric conversions
\* ------------------------------------------------------------------------
\* f32::round: nearest integer, ties away from zero; NaN stays NaN
Fround(x) ==
    IF IsNaN(x) THEN NaN
    ELSE <<Sgn(x[1]) * ((2 * Abs(x[1]) + x[2]) \div (2 * x[2])), 1>>

\* f32::clamp(min, max): NaN stays NaN
Fclamp(x, lo, hi) ==
    IF IsNaN(x) THEN NaN
    ELSE IF Cmp(x, lo) < 0 THEN lo
    ELSE IF Cmp(x, hi) > 0 THEN hi
    ELSE x

\* `f32 as uN` for a target whose maximum is max: truncates toward zero,
\* saturates at 0 and max, NaN becomes 0
FloatToUnsigned(x, max) ==
    IF IsNaN(x) THEN 0
    ELSE IF x[1] < 0 THEN 0
    ELSE IF x[1] \div x[2] > max THEN max
    ELSE x[1] \div x[2]

U8Max == 255

U16Max == 65535

\* `f32 as u32`; the model's magnitudes are below 2^24, so the saturation
\* at u32::MAX is never reached
FloatToU32(x) ==
    IF IsNaN(x) THEN 0
    ELSE IF x[1] < 0 THEN 0
    ELSE x[1] \div x[2]

\* `u32 as u16`: keeps the low 16 bits
U32ToU16(v) == v % 65536

\* ------------------------------------------------------------------------
\* Types
\* ------------------------------------------------------------------------
REPORT_ID == 16

TemperatureUnit == {"Celsius", "Fahrenheit"}

DisplayMode == {"Temperature", "Utilization", "Automatic"}

\* ControlUnit as u8 (repr(u8) discriminants)
ControlUnit ==
    [Celsius |-> 19, Fahrenheit |-> 35, Percentage |-> 76, Loading |-> 170]

\* struct Temperature(TemperatureUnit, f32)
Temperature(unit, mag) == [unit |-> unit, mag |-> mag]

\* Temperature::convert
convert(self, unit) ==
    IF self.unit = "Celsius" /\ unit = "Fahrenheit"
    THEN Temperature(unit, Fadd(Fdiv(Fmul(self.mag, Lit(9)), Lit(5)), Lit(32)))
    ELSE IF self.unit = "Fahrenheit" /\ unit = "Celsius"
    THEN Temperature(unit, Fdiv(Fmul(Fsub(self.mag, Lit(32)), Lit(5)), Lit(9)))
    ELSE self

\* impl From<Temperature> for u32
TemperatureToU32(value) == FloatToU32(Fround(value.mag))

\* impl From<TemperatureUnit> for ControlUnit
ControlUnitFrom(value) ==
    IF value = "Celsius" THEN ControlUnit.Celsius ELSE ControlUnit.Fahrenheit

\* partial_cmp comparing the magnitudes without converting self
partial_cmp_unconverted(self, other) ==
    IF IsNaN(self.mag) \/ IsNaN(other.mag) THEN "None"
    ELSE IF Cmp(self.mag, other.mag) < 0 THEN "Less"
    ELSE IF Cmp(self.mag, other.mag) > 0 THEN "Greater"
    ELSE "Equal"

\* impl PartialOrd for Temperature: self converted to other's unit, then
\* f32::partial_cmp ("None" when either side is NaN)
partial_cmp(self, other) ==
    LET converted == convert(self, other.unit)
    IN  IF IsNaN(converted.mag) \/ IsNaN(other.mag) THEN "None"
        ELSE IF Cmp(converted.mag, other.mag) < 0 THEN "Less"
        ELSE IF Cmp(converted.mag, other.mag) > 0 THEN "Greater"
        ELSE "Equal"

\* the operator >= that PartialOrd provides
ge(self, other) == partial_cmp(self, other) \in {"Greater", "Equal"}

\* convert_to_digits without the clamp
convert_to_digits_unclamped(value) ==
    <<value \div 100, (value % 100) \div 10, value % 10>>

\* convert_to_digits
convert_to_digits(value) ==
    LET v == IF value > 999 THEN 999 ELSE IF value < 0 THEN 0 ELSE value
    IN  <<v \div 100, (v % 100) \div 10, v % 10>>

\* the report write_device_state builds
device_message(control_unit, progress, value, warning) ==
    LET digits == convert_to_digits(value)
    IN  <<REPORT_ID, control_unit, progress,
          digits[1], digits[2], digits[3],
          IF warning THEN 1 ELSE 0>>

\* ------------------------------------------------------------------------
\* Configuration
\* ------------------------------------------------------------------------
default_warning_temperature == Lit(90)

default_show_warning == TRUE

\* #[derive(Default)] on Configuration: every field takes the Default of
\* its type (the serde attributes apply to deserialization only)
ConfigurationDefault ==
    [temperature_unit    |-> "Celsius",
     show_warning        |-> FALSE,
     warning_temperature |-> Lit(0),
     display_mode        |-> "Temperature"]

\* a TOML float as written in the file, <<numerator, denominator>> of the
\* decimal, read into an f32
ParseFloat(dec) == F32Round(dec[1], dec[2])

\* contents of a well-formed configuration file; any key may be missing
ConfigFiles ==
    [temperature_unit    : TemperatureUnit \cup {"missing"},
     show_warning        : {"true", "false", "missing"},
     warning_temperature : {<<90, 1>>, <<1301, 10>>, <<>>},
     display_mode        : DisplayMode \cup {"missing"}]

\* toml::from_str into Configuration: #[serde(default)] on the struct fills
\* a missing field from Configuration::default(), a field-level
\* #[serde(default = "...")] from the named function
Deserialize(file) ==
    [temperature_unit |->
        IF file.temperature_unit = "missing"
        THEN ConfigurationDefault.temperature_unit
        ELSE file.temperature_unit,
     show_warning |->
        IF file.show_warning = "missing" THEN default_show_warning
        ELSE file.show_warning = "true",
     warning_temperature |->
        IF file.warning_temperature = <<>> THEN default_warning_temperature
        ELSE ParseFloat(file.warning_temperature),
     display_mode |->
        IF file.display_mode = "missing"
        THEN ConfigurationDefault.display_mode
        ELSE file.display_mode]

\* what is found at CONFIGURATION_PATH
ConfigSources == {"absent", "unreadable", "malformed", "valid"}

\* load_configuration: Ok(value) or Err
load_configuration(source, file) ==
    IF source = "absent" THEN [ok |-> TRUE, value |-> ConfigurationDefault]
    ELSE IF source = "valid" THEN [ok |-> TRUE, value |-> Deserialize(file)]
    ELSE [ok |-> FALSE, value |-> ConfigurationDefault]

\* ------------------------------------------------------------------------
\* Sensor sampling
\* ------------------------------------------------------------------------
\* temperatures of the CPU package sensors and of the other sensors
PkgTemps == {Lit(-5), <<109, 2>>, Lit(95), Lit(66000)}

OtherTemps == {Lit(40)}

\* a component: package is label.starts_with("coretemp Package")
ComponentSet ==
    [package : {TRUE}, temp : PkgTemps] \cup [package : {FALSE}, temp : OtherTemps]

ComponentLists == UNION {[1..n -> ComponentSet] : n \in 0..MaxComponents}

\* per-CPU usage values, and the lists of CPUs (at least one CPU)
CpuUsages == {Lit(0), Lit(45), Lit(98), Lit(100)}

CpuLists == UNION {[1..n -> CpuUsages] : n \in 1..MaxCpus}

\* the loop of get_cpu_temp: <<total_temp, total_temps>> after components 1..i
RECURSIVE TempTotals(_, _)
TempTotals(components, i) ==
    IF i = 0 THEN <<Lit(0), 0>>
    ELSE LET prev == TempTotals(components, i - 1)
         IN  IF components[i].package
             THEN <<Fadd(prev[1], components[i].temp), prev[2] + 1>>
             ELSE prev

\* get_cpu_temp: always Ok
get_cpu_temp(components) ==
    LET totals == TempTotals(components, Len(components))
        avg    == Fdiv(totals[1], Lit(totals[2]))
    IN  Temperature("Celsius", avg)

\* the loop of get_cpu_load: <<total_usage, total_cpus>> after cpus 1..i
RECURSIVE UsageTotals(_, _)
UsageTotals(cpus, i) ==
    IF i = 0 THEN <<Lit(0), 0>>
    ELSE LET prev == UsageTotals(cpus, i - 1)
         IN  <<Fadd(prev[1], cpus[i]), prev[2] + 1>>

\* get_cpu_load: always Ok
get_cpu_load(cpus) ==
    LET totals == UsageTotals(cpus, Len(cpus))
    IN  Fdiv(totals[1], Lit(totals[2]))

\* ------------------------------------------------------------------------
\* The body of the tick loop
\* ------------------------------------------------------------------------
\* Temperature(report_unit, configuration.warning_temperature)
warning_temperature(configuration) ==
    Temperature(configuration.temperature_unit, configuration.warning_temperature)

warning(configuration, cpu_temp) ==
    configuration.show_warning /\ ge(cpu_temp, warning_temperature(configuration))

\* load_progress rounded to the nearest integer instead of truncated
load_progress_rounded(load) ==
    FloatToUnsigned(Fround(Fclamp(Fmul(Fdiv(load, Lit(100)), Lit(10)), Lit(1), Lit(10))), U8Max)

\* load_progress clamped from 0 instead of 1
load_progress_from_zero(load) ==
    FloatToUnsigned(Fclamp(Fmul(Fdiv(load, Lit(100)), Lit(10)), Lit(0), Lit(10)), U8Max)

load_progress(load) ==
    FloatToUnsigned(Fclamp(Fmul(Fdiv(load, Lit(100)), Lit(10)), Lit(1), Lit(10)), U8Max)

cpu_temp_value(configuration, cpu_temp) ==
    U32ToU16(TemperatureToU32(convert(cpu_temp, configuration.temperature_unit)))

load_value(load) == FloatToUnsigned(Fclamp(load, Lit(0), Lit(999)), U16Max)

\* is_temperature with the frame test applied in every display mode
is_temperature_any_mode(configuration, frame_count) ==
    \/ frame_count < 5
    \/ configuration.display_mode = "Temperature"

is_temperature(configuration, frame_count) ==
    \/ configuration.display_mode = "Automatic" /\ frame_count < 5
    \/ configuration.display_mode = "Temperature"

\* tick_message that plays the loading animation on the first frame
tick_message_loading(configuration, frame_count, load, cpu_temp) ==
    IF frame_count = 0
    THEN device_message(ControlUnit.Loading, 0, 0, FALSE)
    ELSE IF is_temperature(configuration, frame_count)
    THEN device_message(ControlUnitFrom(configuration.temperature_unit),
                        load_progress(load),
                        cpu_temp_value(configuration, cpu_temp),
                        warning(configuration, cpu_temp))
    ELSE device_message(ControlUnit.Percentage,
                        load_progress(load),
                        load_value(load),
                        warning(configuration, cpu_temp))

\* the report the tick writes
tick_message(configuration, frame_count, load, cpu_temp) ==
    IF is_temperature(configuration, frame_count)
    THEN device_message(ControlUnitFrom(configuration.temperature_unit),
                        load_progress(load),
                        cpu_temp_value(configuration, cpu_temp),
                        warning(configuration, cpu_temp))
    ELSE device_message(ControlUnit.Percentage,
                        load_progress(load),
                        load_value(load),
                        warning(configuration, cpu_temp))

\* the frame counter reset one frame late
next_frame_count_late(frame_count) ==
    IF frame_count + 1 = 11 THEN 0 ELSE frame_count + 1

\* frame_count += 1; if frame_count == 10 { frame_count = 0 }
next_frame_count(frame_count) ==
    IF frame_count + 1 = 10 THEN 0 ELSE frame_count + 1

\* ------------------------------------------------------------------------
\* State
\* ------------------------------------------------------------------------
VARIABLES
    pc,              \* position of main
    config_source,   \* what load_configuration found ("none" before it ran)
    configuration,   \* main's configuration
    frame_count,     \* main's frame_count
    load,            \* the tick's load
    cpu_temp,        \* the tick's cpu_temp
    total_temps,     \* get_cpu_temp's count of matching components
    sampled,         \* a sample has been taken
    message,         \* the report written in this iteration (<<>> if none)
    first_message,   \* the first report written to the device
    loading_writes,  \* number of reports written with the Loading control unit
    digits_value,    \* argument of convert_to_digits
    digits_result    \* result of convert_to_digits

vars == <<pc, config_source, configuration, frame_count, load, cpu_temp,
          total_temps, sampled, message, first_message, loading_writes,
          digits_value, digits_result>>

device_vars == <<message, first_message, loading_writes>>

sample_vars == <<load, cpu_temp, total_temps, sampled>>

digits_vars == <<digits_value, digits_result>>

Init ==
    /\ pc = "open_device"
    /\ config_source = "none"
    /\ configuration = ConfigurationDefault
    /\ frame_count = 0
    /\ load = Lit(0)
    /\ cpu_temp = Temperature("Celsius", Lit(0))
    /\ total_temps = 0
    /\ sampled = FALSE
    /\ message = <<>>
    /\ first_message = <<>>
    /\ loading_writes = 0
    /\ digits_value = 0
    /\ digits_result = <<>>

\* device.write(&message) succeeding
Written(msg) ==
    /\ message' = msg
    /\ first_message' = IF first_message = <<>> THEN msg ELSE first_message
    /\ loading_writes' = loading_writes + (IF msg[2] = ControlUnit.Loading THEN 1 ELSE 0)

\* HidApi::new and api.open; a failure ends main
OpenDevice ==
    /\ pc = "open_device"
    /\ \E ok \in BOOLEAN :
          pc' = IF ok THEN "write_loading" ELSE "terminated"
    /\ UNCHANGED <<config_source, configuration, frame_count>>
    /\ UNCHANGED <<sample_vars, device_vars, digits_vars>>

\* write_device_state(&mut device, ControlUnit::Loading, 0, 0, false)?
WriteLoading ==
    /\ pc = "write_loading"
    /\ \E ok \in BOOLEAN :
          IF ok
          THEN /\ Written(device_message(ControlUnit.Loading, 0, 0, FALSE))
               /\ pc' = "load_configuration"
          ELSE /\ UNCHANGED device_vars
               /\ pc' = "terminated"
    /\ UNCHANGED <<config_source, configuration, frame_count>>
    /\ UNCHANGED <<sample_vars, digits_vars>>

\* load_configuration with the fallback to Default::default(), then the
\* set-up of the loop
LoadConfiguration ==
    /\ pc = "load_configuration"
    /\ \E source \in ConfigSources, file \in ConfigFiles :
          LET result == load_configuration(source, file)
          IN  /\ config_source' = source
              /\ configuration' = IF result.ok THEN result.value
                                  ELSE ConfigurationDefault
    /\ frame_count' = 0
    /\ pc' = "get_cpu_load"
    /\ UNCHANGED <<sample_vars, device_vars, digits_vars>>

\* let load = get_cpu_load(&mut sys)?
GetCpuLoad ==
    /\ pc = "get_cpu_load"
    /\ \E cpus \in CpuLists : load' = get_cpu_load(cpus)
    /\ sampled' = TRUE
    /\ pc' = "get_cpu_temp"
    /\ UNCHANGED <<config_source, configuration, frame_count, cpu_temp, total_temps>>
    /\ UNCHANGED <<device_vars, digits_vars>>

\* let cpu_temp = get_cpu_temp(&mut components)?
GetCpuTemp ==
    /\ pc = "get_cpu_temp"
    /\ \E components \in ComponentLists :
          /\ cpu_temp' = get_cpu_temp(components)
          /\ total_temps' = TempTotals(components, Len(components))[2]
    /\ pc' = "write_state"
    /\ UNCHANGED <<config_source, configuration, frame_count, load, sampled>>
    /\ UNCHANGED <<device_vars, digits_vars>>

\* the derivation of the display state and the write of the report
WriteState ==
    /\ pc = "write_state"
    /\ \E ok \in BOOLEAN :
          IF ok
          THEN /\ Written(tick_message(configuration, frame_count, load, cpu_temp))
               /\ pc' = "sleep"
          ELSE /\ UNCHANGED device_vars
               /\ pc' = "terminated"
    /\ UNCHANGED <<config_source, configuration, frame_count>>
    /\ UNCHANGED <<sample_vars, digits_vars>>

\* the sleep and the advance of the frame counter; the locals of the
\* iteration (load, cpu_temp, the message array) go out of scope
AdvanceFrame ==
    /\ pc = "sleep"
    /\ frame_count' = next_frame_count(frame_count)
    /\ pc' = "get_cpu_load"
    /\ load' = Lit(0)
    /\ cpu_temp' = Temperature("Celsius", Lit(0))
    /\ total_temps' = 0
    /\ message' = <<>>
    /\ UNCHANGED <<config_source, configuration, sampled>>
    /\ UNCHANGED <<first_message, loading_writes, digits_vars>>

Next ==
    \/ OpenDevice
    \/ WriteLoading
    \/ LoadConfiguration
    \/ GetCpuLoad
    \/ GetCpuTemp
    \/ WriteState
    \/ AdvanceFrame

Spec == Init /\ [][Next]_vars

\* ------------------------------------------------------------------------
\* convert_to_digits on its own: every u16 argument
\* ------------------------------------------------------------------------
InitDigits ==
    /\ pc = "convert_to_digits"
    /\ config_source = "none"
    /\ configuration = ConfigurationDefault
    /\ frame_count = 0
    /\ load = Lit(0)
    /\ cpu_temp = Temperature("Celsius", Lit(0))
    /\ total_temps = 0
    /\ sampled = FALSE
    /\ message = <<>>
    /\ first_message = <<>>
    /\ loading_writes = 0
    /\ digits_value \in 0..U16Max
    /\ digits_result = <<>>

ConvertToDigits ==
    /\ pc = "convert_to_digits"
    /\ digits_result' = convert_to_digits(digits_value)
    /\ pc' = "converted"
    /\ UNCHANGED <<config_source, configuration, frame_count, digits_value>>
    /\ UNCHANGED <<sample_vars, device_vars>>

NextDigits == ConvertToDigits

SpecDigits == InitDigits /\ [][NextDigits]_vars

\* ------------------------------------------------------------------------
\* Properties
\* ------------------------------------------------------------------------
\* the main loop has been entered
Looping == pc \in {"get_cpu_load", "get_cpu_temp", "write_state", "sleep"}

\* a tick has written its report and main sleeps: message, load, cpu_temp and
\* frame_count are those of that tick
Reported == pc = "sleep"

\* the number the three digit bytes of a report show
Shown(msg) == 100 * msg[4] + 10 * msg[5] + msg[6]

ClampInt(v, lo, hi) == IF v < lo THEN lo ELSE IF v > hi THEN hi ELSE v

LoadingReport == <<16, 170, 0, 0, 0, 0, 0>>

\* the sample in the configured unit
Converted == convert(cpu_temp, configuration.temperature_unit).mag

\* the sample converted to the threshold's unit meets the threshold
SampleMeetsThreshold ==
    /\ ~IsNaN(Converted)
    /\ Cmp(Converted, configuration.warning_temperature) >= 0

\* the sample meets the threshold converted to the sample's unit
SampleMeetsConvertedThreshold ==
    LET t == convert(Temperature(configuration.temperature_unit,
                                 configuration.warning_temperature),
                     cpu_temp.unit).mag
    IN  /\ ~IsNaN(cpu_temp.mag)
        /\ Cmp(cpu_temp.mag, t) >= 0

\* |a - b| < 2^(-10), for finite a and b
Within1024th(a, b) ==
    LET qa == a[1] \div a[2]
        qb == b[1] \div b[2]
        g  == Gcd(a[2], b[2])
        l  == (a[2] \div g) * b[2]
    IN  IF Abs(qa - qb) > 1 THEN FALSE
        ELSE Abs(a[1] * (l \div a[2]) - b[1] * (l \div b[2])) * 1024 < l

\* C1: in Automatic mode the frame counter starts at 0, advances by one per
\* tick and returns to 0 on reaching 10, so it is in 0..9 whenever a report
\* is built; the report of a tick shows the temperature view (control byte
\* 19 or 35) at frames 0..4 and the utilization view (76) at frames 5..9.
AutomaticFrameCycle ==
    /\ [](Looping => frame_count \in 0..9)
    /\ [](Reported /\ configuration.display_mode = "Automatic" =>
            /\ frame_count \in 0..4 => message[2] \in {19, 35}
            /\ frame_count \in 5..9 => message[2] = 76)
    /\ [][pc = "load_configuration" => frame_count' = 0]_vars
    /\ [][pc = "sleep" => frame_count' = (frame_count + 1) % 10]_vars
    /\ [][pc \notin {"load_configuration", "sleep"} => frame_count' = frame_count]_vars

AutomaticFrameCycleWitness ==
    /\ Reported
    /\ configuration.display_mode = "Automatic"
    /\ frame_count = 9
    /\ message[2] = 76

\* C2: with the configuration file absent, unreadable or malformed the loop
\* runs with temperature_unit = Celsius, show_warning = true,
\* warning_temperature = 90.0, display_mode = Temperature, so a 95 C sample
\* yields warning byte 1.
FallbackIsDocumentedDefaults ==
    config_source \in {"absent", "unreadable", "malformed"} =>
        /\ configuration = [temperature_unit    |-> "Celsius",
                            show_warning        |-> TRUE,
                            warning_temperature |-> Lit(90),
                            display_mode        |-> "Temperature"]
        /\ Reported /\ cpu_temp = Temperature("Celsius", Lit(95)) => message[7] = 1

\* C3: a tick whose temperature sampling matches no CPU-package component
\* fails: sampling does not return a value and no report is written for
\* that tick.
NoPackageSensorIsFatal ==
    config_source = "valid" /\ pc \in {"write_state", "sleep"} => total_temps > 0

\* C4: the first report written is the loading report [16,170,0,0,0,0,0],
\* written before the configuration is loaded and before any sample is
\* taken, and written once: no report of the tick loop has control byte 170.
LoadingReportFirstAndOnce ==
    /\ first_message \in {<<>>, LoadingReport}
    /\ (config_source # "none" \/ sampled) => first_message = LoadingReport
    /\ loading_writes = (IF first_message = <<>> THEN 0 ELSE 1)
    /\ Reported => message[2] # 170

LoadingReportFirstAndOnceWitness ==
    /\ Reported
    /\ frame_count = 3
    /\ first_message = LoadingReport
    /\ loading_writes = 1

\* C5: for every sampled temperature, the digits of a temperature-view
\* report show clamp(round(temperature in the configured unit), 0, 999);
\* out-of-range values are clamped, never wrapped.
TemperatureDigitsClamped ==
    Reported /\ config_source = "valid" /\ message[2] \in {19, 35} /\ total_temps > 0 =>
        Shown(message) = ClampInt(Fround(Converted)[1], 0, 999)

\* C6 as stated: the progress byte is clamp(round((load/100)*10), 1, 10),
\* rounded to the nearest integer, and load 45 with 95 C under
\* {Celsius, warning 90, Temperature mode} yields [16,19,5,0,9,5,1].
ProgressRounded ==
    Reported /\ config_source = "valid" /\ total_temps > 0 =>
        /\ message[3] = ClampInt(Fround(Fmul(Fdiv(load, Lit(100)), Lit(10)))[1], 1, 10)
        /\ ( /\ load = Lit(45)
             /\ cpu_temp = Temperature("Celsius", Lit(95))
             /\ configuration = [temperature_unit    |-> "Celsius",
                                 show_warning        |-> TRUE,
                                 warning_temperature |-> Lit(90),
                                 display_mode        |-> "Temperature"]
             => message = <<16, 19, 5, 0, 9, 5, 1>> )

\* C6 amended: the progress byte is the f32 value (load/100)*10 clamped to
\* [1,10] and truncated toward zero, and load 45 with 95 C under
\* {Celsius, warning 90, Temperature mode} yields [16,19,4,0,9,5,1].
ProgressTruncated ==
    Reported =>
        /\ LET p == Fmul(Fdiv(load, Lit(100)), Lit(10))
           IN  message[3] = ClampInt(p[1] \div p[2], 1, 10)
        /\ ( /\ load = Lit(45)
             /\ cpu_temp = Temperature("Celsius", Lit(95))
             /\ configuration = [temperature_unit    |-> "Celsius",
                                 show_warning        |-> TRUE,
                                 warning_temperature |-> Lit(90),
                                 display_mode        |-> "Temperature"]
             => message = <<16, 19, 4, 0, 9, 5, 1>> )

ProgressTruncatedWitness ==
    /\ Reported
    /\ load = Lit(45)
    /\ cpu_temp = Temperature("Celsius", Lit(95))
    /\ message = <<16, 19, 4, 0, 9, 5, 1>>

\* C7 as stated: in both views the warning byte is 1 iff show_warning is
\* set and the sample is >= the threshold, and the comparison gives the
\* same result whether the sample is converted to the threshold's unit or
\* the threshold to the sample's unit.
WarningEitherDirection ==
    Reported =>
        /\ message[7] = (IF configuration.show_warning /\ SampleMeetsThreshold
                         THEN 1 ELSE 0)
        /\ SampleMeetsThreshold <=> SampleMeetsConvertedThreshold

\* C7 amended: in both views the warning byte is 1 iff show_warning is set
\* and the sample, converted in f32 to the threshold's unit, is >= the
\* threshold.  Converting the threshold to the sample's unit instead gives
\* the same result when the units are equal, and otherwise can differ only
\* where the converted sample is within 2^-10 degrees of the threshold.
WarningByConvertedSample ==
    Reported =>
        /\ message[7] = (IF configuration.show_warning /\ SampleMeetsThreshold
                         THEN 1 ELSE 0)
        /\ (SampleMeetsThreshold # SampleMeetsConvertedThreshold) =>
              /\ cpu_temp.unit # configuration.temperature_unit
              /\ Within1024th(Converted, configuration.warning_temperature)

WarningByConvertedSampleWitness ==
    /\ Reported
    /\ configuration.show_warning
    /\ configuration.temperature_unit = "Fahrenheit"
    /\ configuration.warning_temperature = ParseFloat(<<1301, 10>>)
    /\ cpu_temp.mag = <<109, 2>>
    /\ message[7] = 1
    /\ ~SampleMeetsConvertedThreshold

\* C8: for every u16 v, convert_to_digits(v) is three bytes in 0..9 with
\* 100*hundreds + 10*tens + units = min(v, 999); for v <= 999 they are
\* v/100, (v%100)/10 and v%10.
DigitsOfClampedValue ==
    digits_result # <<>> =>
        /\ Len(digits_result) = 3
        /\ \A i \in 1..3 : digits_result[i] \in 0..9
        /\ 100 * digits_result[1] + 10 * digits_result[2] + digits_result[3]
              = (IF digits_value < 999 THEN digits_value ELSE 999)
        /\ digits_value <= 999 =>
              digits_result = <<digits_value \div 100,
                                (digits_value % 100) \div 10,
                                digits_value % 10>>

DigitsOfClampedValueWitness ==
    /\ digits_value = 65535
    /\ digits_result = <<9, 9, 9>>

\* C9: in Temperature mode every report of the loop has control byte 19
\* (Celsius) or 35 (Fahrenheit) and carries the tick's temperature value;
\* in Utilization mode every report has control byte 76 and carries the
\* load clamped to [0,999] and truncated; this holds at every frame, and
\* the frame counter advances each tick in these modes too.
FixedModeView ==
    /\ [](Reported /\ configuration.display_mode = "Temperature" =>
            /\ message[2] = (IF configuration.temperature_unit = "Celsius"
                             THEN 19 ELSE 35)
            /\ Shown(message) =
                  (IF IsNaN(Converted) THEN 0
                   ELSE ClampInt(ClampInt(Fround(Converted)[1], 0, 2^30) % 65536, 0, 999)))
    /\ [](Reported /\ configuration.display_mode = "Utilization" =>
            /\ message[2] = 76
            /\ Shown(message) = ClampInt(load[1] \div load[2], 0, 999))
    /\ [][pc = "sleep" /\ configuration.display_mode # "Automatic" =>
            frame_count' = (frame_count + 1) % 10]_vars

FixedModeViewWitness ==
    /\ Reported
    /\ configuration.display_mode = "Utilization"
    /\ frame_count = 2
    /\ message[2] = 76
    /\ Shown(message) = 98

\* C10: for every load in [0,100] the progress byte of a report of the loop
\* is in 1..10; load 0 gives 1 and load 100 gives 10.
ProgressInRange ==
    Reported =>
        /\ message[3] \in 1..10
        /\ load = Lit(0) => message[3] = 1
        /\ load = Lit(100) => message[3] = 10

ProgressInRangeWitness ==
    /\ Reported
    /\ load = Lit(0)
    /\ message[3] = 1

====
